---- MODULE Spec2Model ----
(***************************************************************************)
(* Gobang (five in a row), version 0.1.3: the win detector, the position   *)
(* evaluator, the candidate filter, the alpha-beta search and the two      *)
(* top-level move selections, as state machines over the global board.     *)
(***************************************************************************)
EXTENDS Integers, Sequences, FiniteSets, TLC

VARIABLES board, hasWinner, winningPositions, AI_DEPTH, gameMode,
          lastMoveRow, lastMoveCol, currentPlayer, moves, row, col, pc, call

vars == <<board, hasWinner, winningPositions, AI_DEPTH, gameMode,
          lastMoveRow, lastMoveCol, currentPlayer, moves, row, col, pc, call>>

(***************************************************************************)
(* Program constants.                                                      *)
(***************************************************************************)
BOARD_SIZE == 15
EMPTY == 0
BLACK == 1
WHITE == 2
MAX_DEPTH == 5
SEARCH_RANGE == 2
INF == 2147483647
NEG_INF == (0 - 2147483647) - 1
EASY_DEPTH == 2
MEDIUM_DEPTH == 3
HARD_DEPTH == 4

Idx == 0 .. (BOARD_SIZE - 1)
directions == << <<0, 1>>, <<1, 0>>, <<1, 1>>, <<1, -1>> >>

InBoard(r, c) == r >= 0 /\ r < BOARD_SIZE /\ c >= 0 /\ c < BOARD_SIZE

\* initBoard(): every cell EMPTY.
initBoard == [i \in Idx |-> [j \in Idx |-> EMPTY]]

\* The initial value of winningPositions, also restored at each new game.
NoPositions == [w \in 1 .. 5 |-> <<-1, -1>>]

(***************************************************************************)
(* checkWin                                                                *)
(***************************************************************************)
\* One of the two scanning loops of checkWin: the coordinates collected for
\* i = i .. 4 along (dr, dc), stopping at the first cell that is off the
\* board or does not hold player.
RECURSIVE WinWalk(_, _, _, _, _, _, _)
WinWalk(b, r, c, dr, dc, player, i) ==
    IF i > 4 THEN << >>
    ELSE LET newRow == r + dr * i
             newCol == c + dc * i
         IN  IF ~InBoard(newRow, newCol) \/ b[newRow][newCol] # player
             THEN << >>
             ELSE << <<newRow, newCol>> >>
                  \o WinWalk(b, r, c, dr, dc, player, i + 1)

\* WinPositions with the second scan walking the same way as the first: what
\* checkWin would collect with "+" for "-" in lines 215-216.
WinPositionsSameWay(b, r, c, d) ==
    << <<r, c>> >> \o WinWalk(b, r, c, directions[d][1], directions[d][2], b[r][c], 1)
                   \o WinWalk(b, r, c, directions[d][1], directions[d][2], b[r][c], 1)

\* positions[0 .. posCount-1] for direction d: the origin, then the forward
\* scan, then the backward scan.
WinPositions(b, r, c, d) ==
    LET dr == directions[d][1]
        dc == directions[d][2]
        player == b[r][c]
    IN  << <<r, c>> >> \o WinWalk(b, r, c, dr, dc, player, 1)
                       \o WinWalk(b, r, c, -dr, -dc, player, 1)

\* CheckWinFrom with the test of line 225 off by one: count >= 4.
RECURSIVE CheckWinFromFour(_, _, _, _, _, _)
CheckWinFromFour(b, r, c, d, hw, wp) ==
    IF d > 4 THEN [ret |-> 0, hasWinner |-> hw, winningPositions |-> wp]
    ELSE IF Len(WinPositions(b, r, c, d)) >= 4
         THEN [ret |-> 1, hasWinner |-> 1,
               winningPositions |->
                   [w \in 1 .. 5 |->
                       IF w <= Len(WinPositions(b, r, c, d))
                       THEN WinPositions(b, r, c, d)[w] ELSE wp[w]]]
         ELSE CheckWinFromFour(b, r, c, d + 1, hw, wp)

\* The loop over the four directions, from direction d on.  The result is the
\* return value and the values hasWinner and winningPositions have afterwards.
RECURSIVE CheckWinFrom(_, _, _, _, _, _)
CheckWinFrom(b, r, c, d, hw, wp) ==
    IF d > 4 THEN [ret |-> 0, hasWinner |-> hw, winningPositions |-> wp]
    ELSE LET positions == WinPositions(b, r, c, d)
             count == Len(positions)
         IN  IF count >= 5
             THEN [ret |-> 1, hasWinner |-> 1,
                   winningPositions |-> [w \in 1 .. 5 |-> positions[w]]]
             ELSE CheckWinFrom(b, r, c, d + 1, hw, wp)

\* checkWin with the loop over the directions begun at d = 1: the rows are
\* not scanned.
checkWinSkippingRows(b, r, c, hw, wp) == CheckWinFrom(b, r, c, 2, hw, wp)

checkWin(b, r, c, hw, wp) == CheckWinFrom(b, r, c, 1, hw, wp)

(***************************************************************************)
(* evaluatePosition, evaluateBoard                                         *)
(***************************************************************************)
\* One of the two scanning loops of evaluatePosition, from step i on, count
\* being the stones this loop has counted so far: <<stones counted, blocks
\* counted>> when the loop ends.
RECURSIVE EvalWalk(_, _, _, _, _, _, _, _)
EvalWalk(b, r, c, dr, dc, player, i, count) ==
    CASE i > 4 -> <<count, 0>>
      [] ~InBoard(r + dr * i, c + dc * i) -> <<count, 1>>
      [] b[r + dr * i][c + dc * i] = player ->
             EvalWalk(b, r, c, dr, dc, player, i + 1, count + 1)
      [] b[r + dr * i][c + dc * i] # EMPTY -> <<count, 1>>
      [] OTHER -> <<count, 0>>

\* DirScore without the tests of block: a four or a three scores the same
\* whether an end is closed or not.
DirScoreIgnoringBlock(count, block) ==
    IF count >= 5 THEN 100000
    ELSE IF count = 4 THEN 10000
    ELSE IF count = 3 THEN 1000
    ELSE IF count = 2 THEN 100
    ELSE 0

\* The if-chain that scores one direction.
DirScore(count, block) ==
    IF count >= 5 THEN 100000
    ELSE IF count = 4 /\ block = 0 THEN 10000
    ELSE IF count = 4 /\ block = 1 THEN 1000
    ELSE IF count = 3 /\ block = 0 THEN 1000
    ELSE IF count = 3 /\ block = 1 THEN 100
    ELSE IF count = 2 /\ block = 0 THEN 100
    ELSE 0

\* count and block of one direction from the results fw and bw of the two
\* scans, and the score they get.
ScanScore(fw, bw) == DirScore(1 + fw[1] + bw[1], fw[2] + bw[2])

\* One pass of the loop over the directions: the score added for direction d.
EvalDir(b, r, c, player, d) ==
    ScanScore(EvalWalk(b, r, c, directions[d][1], directions[d][2], player, 1, 0),
              EvalWalk(b, r, c, -directions[d][1], -directions[d][2], player, 1, 0))

evaluatePosition(b, r, c, player) ==
    EvalDir(b, r, c, player, 1) + EvalDir(b, r, c, player, 2)
    + EvalDir(b, r, c, player, 3) + EvalDir(b, r, c, player, 4)

\* CellTerm without the branch of line 310: Black's stones are not scored.
CellTermWhiteOnly(b, i, j) ==
    IF b[i][j] = WHITE THEN evaluatePosition(b, i, j, WHITE) ELSE 0

\* The term one cell adds to the score of evaluateBoard.
CellTerm(b, i, j) ==
    IF b[i][j] = WHITE THEN evaluatePosition(b, i, j, WHITE)
    ELSE IF b[i][j] = BLACK THEN 0 - evaluatePosition(b, i, j, BLACK)
    ELSE 0

\* The cells in the order the nested loops "for i ... for j ..." visit them:
\* cell k (k = 0 .. 224) is row k / 15, column k % 15.
NumCells == BOARD_SIZE * BOARD_SIZE
RowOf(k) == k \div BOARD_SIZE
ColOf(k) == k % BOARD_SIZE
Mid(lo, hi) == (lo + hi) \div 2

\* The loops of evaluateBoard over the cells lo .. hi-1: the sum of their
\* terms.  The range is split in halves to keep the evaluation shallow.
RECURSIVE EvalRange(_, _, _)
EvalRange(b, lo, hi) ==
    IF hi = lo + 1 THEN CellTerm(b, RowOf(lo), ColOf(lo))
    ELSE EvalRange(b, lo, Mid(lo, hi)) + EvalRange(b, Mid(lo, hi), hi)

evaluateBoard(b) == EvalRange(b, 0, NumCells)

(***************************************************************************)
(* inSearchRange, minimax                                                  *)
(***************************************************************************)
\* inSearchRange with "<" for "<=" at the upper ends of its loops.
inSearchRangeShort(b, r, c) ==
    \E i \in (r - SEARCH_RANGE) .. (r + SEARCH_RANGE - 1) :
        \E j \in (c - SEARCH_RANGE) .. (c + SEARCH_RANGE - 1) :
            InBoard(i, j) /\ b[i][j] # EMPTY

inSearchRange(b, r, c) ==
    \E i \in (r - SEARCH_RANGE) .. (r + SEARCH_RANGE) :
        \E j \in (c - SEARCH_RANGE) .. (c + SEARCH_RANGE) :
            InBoard(i, j) /\ b[i][j] # EMPTY

\* The test that guards every simulated move.
IsCandidate(b, i, j) == b[i][j] = EMPTY /\ inSearchRange(b, i, j)

\* The store board[i][j] = v.
Put(b, i, j, v) == [b EXCEPT ![i][j] = v]

\* Undo without the store: the simulated stone stays on the board.
UndoForgotten(b, i, j) == b

\* The store that takes a simulated stone back.
Undo(b, i, j) == Put(b, i, j, EMPTY)

\* minimax(depth, alpha, beta, maximizingPlayer) on board b.  The result is
\* the value returned, the board as the call leaves it, the set of cells the
\* call has stored to, and cut: the call has returned from inside its loops,
\* on beta <= alpha.
\* The state s of the loops of a node is [ret, val, alpha, beta, board,
\* touched, trace]: val is the running maxEval / minEval and ret says that the
\* return of the cutoff has been executed.  trace lists the stones simulated
\* so far, in the order of the stores: <<depth, i, j, colour>> is the store
\* board[i][j] = colour made by the node (or the selection) of that depth.  MaxLoop / MinLoop run the loops over the
\* cells lo .. hi-1, in order, from state s (the range is split in halves to
\* keep the evaluation shallow, and nothing is done after a return).  MaxStep / MinStep are the body of the loops for cell k, and
\* MaxAfter / MinAfter the statements after the recursive call, sub being its
\* result.
RECURSIVE minimax(_, _, _, _, _)
RECURSIVE MaxLoop(_, _, _, _)
RECURSIVE MinLoop(_, _, _, _)

\* The state of the loops once the store board[i][j] = colour of the node of
\* that depth is on record.
Simulated(s, depth, i, j, colour) ==
    [s EXCEPT !.trace = Append(@, <<depth, i, j, colour>>)]

MaxAfter(s, i, j, sub) ==
    LET eval == sub.val
        alpha2 == IF s.alpha > eval THEN s.alpha ELSE eval
    IN  [ret |-> s.beta <= alpha2,
         val |-> IF eval > s.val THEN eval ELSE s.val,
         alpha |-> alpha2, beta |-> s.beta,
         board |-> Undo(sub.board, i, j),
         touched |-> s.touched \cup sub.touched \cup {<<i, j>>},
         trace |-> s.trace \o sub.trace]

MaxStep(s, depth, k) ==
    IF IsCandidate(s.board, RowOf(k), ColOf(k))
    THEN MaxAfter(Simulated(s, depth, RowOf(k), ColOf(k), WHITE), RowOf(k), ColOf(k),
                  minimax(Put(s.board, RowOf(k), ColOf(k), WHITE), depth - 1,
                          s.alpha, s.beta, FALSE))
    ELSE s

MaxLoop(s, depth, lo, hi) ==
    CASE s.ret -> s
      [] hi = lo + 1 -> MaxStep(s, depth, lo)
      [] OTHER -> MaxLoop(MaxLoop(s, depth, lo, Mid(lo, hi)), depth, Mid(lo, hi), hi)

\* MinAfter with the return of the cutoff taken before minEval is updated.
MinAfterEarlyReturn(s, i, j, sub) ==
    LET eval == sub.val
        beta2 == IF s.beta < eval THEN s.beta ELSE eval
    IN  [ret |-> beta2 <= s.alpha,
         val |-> IF beta2 <= s.alpha THEN s.val
                 ELSE IF eval < s.val THEN eval ELSE s.val,
         alpha |-> s.alpha, beta |-> beta2,
         board |-> Undo(sub.board, i, j),
         touched |-> s.touched \cup sub.touched \cup {<<i, j>>},
         trace |-> s.trace \o sub.trace]

MinAfter(s, i, j, sub) ==
    LET eval == sub.val
        beta2 == IF s.beta < eval THEN s.beta ELSE eval
    IN  [ret |-> beta2 <= s.alpha,
         val |-> IF eval < s.val THEN eval ELSE s.val,
         alpha |-> s.alpha, beta |-> beta2,
         board |-> Undo(sub.board, i, j),
         touched |-> s.touched \cup sub.touched \cup {<<i, j>>},
         trace |-> s.trace \o sub.trace]

MinStep(s, depth, k) ==
    IF IsCandidate(s.board, RowOf(k), ColOf(k))
    THEN MinAfter(Simulated(s, depth, RowOf(k), ColOf(k), BLACK), RowOf(k), ColOf(k),
                  minimax(Put(s.board, RowOf(k), ColOf(k), BLACK), depth - 1,
                          s.alpha, s.beta, TRUE))
    ELSE s

MinLoop(s, depth, lo, hi) ==
    CASE s.ret -> s
      [] hi = lo + 1 -> MinStep(s, depth, lo)
      [] OTHER -> MinLoop(MinLoop(s, depth, lo, Mid(lo, hi)), depth, Mid(lo, hi), hi)

\* What a node returns once its loops have ended in state s.
NodeResult(s) ==
    [val |-> s.val, board |-> s.board, touched |-> s.touched, cut |-> s.ret,
     trace |-> s.trace]

\* The state of the loops of a node at their start.
NodeStart(b, alpha, beta, eval0) ==
    [ret |-> FALSE, val |-> eval0, alpha |-> alpha, beta |-> beta, board |-> b,
     touched |-> {}, trace |-> <<>>]

\* minimax with the leaf scored for the side to move: evaluateBoard() for the
\* maximizing side, minus evaluateBoard() for the other.
minimaxSignedLeaf(b, depth, alpha, beta, maximizingPlayer) ==
    IF depth = 0 \/ depth >= MAX_DEPTH
    THEN [val |-> IF maximizingPlayer THEN evaluateBoard(b) ELSE 0 - evaluateBoard(b),
          board |-> b, touched |-> {}, cut |-> FALSE, trace |-> <<>>]
    ELSE IF maximizingPlayer
         THEN NodeResult(MaxLoop(NodeStart(b, alpha, beta, NEG_INF), depth, 0, NumCells))
         ELSE NodeResult(MinLoop(NodeStart(b, alpha, beta, INF), depth, 0, NumCells))

minimax(b, depth, alpha, beta, maximizingPlayer) ==
    IF depth = 0 \/ depth >= MAX_DEPTH
    THEN [val |-> evaluateBoard(b), board |-> b, touched |-> {}, cut |-> FALSE,
          trace |-> <<>>]
    ELSE IF maximizingPlayer
         THEN NodeResult(MaxLoop(NodeStart(b, alpha, beta, NEG_INF), depth, 0, NumCells))
         ELSE NodeResult(MinLoop(NodeStart(b, alpha, beta, INF), depth, 0, NumCells))

(***************************************************************************)
(* makeAIMove, makeAIHelpMove                                              *)
(***************************************************************************)
\* The loops of the two selections over the cells lo .. hi-1, in order, from
\* state s = [ret, bestScore, bestRow, bestCol, board, touched, trace,
\* scores]: the stone of
\* player is simulated on every candidate and the search is started with
\* maximizingPlayer = nextMax.  SelectStep is the body of the loops for cell
\* k and SelectAfter what follows the call of minimax, sub being its result.
\* These loops hold no return: ret stays FALSE.  trace is as in minimax, and
\* scores holds <<i, j, score>> for every candidate (i, j) tried so far.
RECURSIVE SelectLoop(_, _, _, _, _, _)

\* SelectAfter without the store of lines 403 / 454: the stone simulated on
\* the candidate is not taken back.
SelectAfterLeak(s, i, j, sub) ==
    [ret |-> FALSE,
     bestScore |-> IF sub.val > s.bestScore THEN sub.val ELSE s.bestScore,
     bestRow |-> IF sub.val > s.bestScore THEN i ELSE s.bestRow,
     bestCol |-> IF sub.val > s.bestScore THEN j ELSE s.bestCol,
     board |-> sub.board,
     touched |-> s.touched \cup sub.touched \cup {<<i, j>>},
     trace |-> s.trace \o sub.trace,
     scores |-> s.scores \cup {<<i, j, sub.val>>}]

SelectAfter(s, i, j, sub) ==
    [ret |-> FALSE,
     bestScore |-> IF sub.val > s.bestScore THEN sub.val ELSE s.bestScore,
     bestRow |-> IF sub.val > s.bestScore THEN i ELSE s.bestRow,
     bestCol |-> IF sub.val > s.bestScore THEN j ELSE s.bestCol,
     board |-> Undo(sub.board, i, j),
     touched |-> s.touched \cup sub.touched \cup {<<i, j>>},
     trace |-> s.trace \o sub.trace,
     scores |-> s.scores \cup {<<i, j, sub.val>>}]

SelectStep(s, player, nextMax, depth, k) ==
    IF IsCandidate(s.board, RowOf(k), ColOf(k))
    THEN SelectAfter(Simulated(s, depth, RowOf(k), ColOf(k), player), RowOf(k), ColOf(k),
                     minimax(Put(s.board, RowOf(k), ColOf(k), player), depth - 1,
                             NEG_INF, INF, nextMax))
    ELSE s

SelectLoop(s, player, nextMax, depth, lo, hi) ==
    CASE s.ret -> s
      [] hi = lo + 1 -> SelectStep(s, player, nextMax, depth, lo)
      [] OTHER -> SelectLoop(SelectLoop(s, player, nextMax, depth, lo, Mid(lo, hi)),
                             player, nextMax, depth, Mid(lo, hi), hi)

\* The locals of a selection at the start of its loops.
SelectStart(b) ==
    [ret |-> FALSE, bestScore |-> NEG_INF, bestRow |-> -1, bestCol |-> -1,
     board |-> b, touched |-> {}, trace |-> <<>>, scores |-> {}]

\* The loops of makeAIMove: White's stone, then minimax(AI_DEPTH - 1, NEG_INF,
\* INF, 0).
AIMoveLoops(b, depth) ==
    SelectLoop(SelectStart(b), WHITE, FALSE, depth, 0, NumCells)

\* The store board[bestRow][bestCol] = player that ends both selections.  With
\* an index off the board the store is outside the array: oob.
FinalStore(s, r, c, player) ==
    IF InBoard(r, c)
    THEN [row |-> r, col |-> c, board |-> Put(s.board, r, c, player),
          touched |-> s.touched \cup {<<r, c>>}, oob |-> FALSE,
          trace |-> s.trace, scores |-> s.scores]
    ELSE [row |-> r, col |-> c, board |-> s.board,
          touched |-> s.touched, oob |-> TRUE,
          trace |-> s.trace, scores |-> s.scores]

StoreBest(s, player) == FinalStore(s, s.bestRow, s.bestCol, player)

\* makeAIMove with AI_DEPTH = depth: the cell reported through row and col,
\* the board it leaves, the cells stored to, whether it stored off the board.
makeAIMove(b, depth) == StoreBest(AIMoveLoops(b, depth), WHITE)

\* boardEmpty of makeAIHelpMove.
boardEmpty(b) == \A i \in Idx : \A j \in Idx : b[i][j] = EMPTY

\* The loops of makeAIHelpMove: the player's stone, then minimax(AI_DEPTH - 1,
\* NEG_INF, INF, player == WHITE).
HelpLoops(b, player, depth) ==
    SelectLoop(SelectStart(b), player, player = WHITE, depth, 0, NumCells)

\* OpeningCell without the "- 1" of lines 445-446.
OpeningCellNoOffset(x, y) ==
    <<(BOARD_SIZE \div 2) + (x % 3), (BOARD_SIZE \div 2) + (y % 3)>>

\* The opening choice: center + (rand() % 3 - 1) for the row and the column,
\* x and y being the two values rand() returned.
OpeningCell(x, y) ==
    LET center == BOARD_SIZE \div 2
    IN  <<center + ((x % 3) - 1), center + ((y % 3) - 1)>>

\* makeAIHelpMove up to the check of bestRow and bestCol.
HelpChoice(b, player, depth, x, y) ==
    IF boardEmpty(b)
    THEN [ret |-> FALSE, bestScore |-> NEG_INF, bestRow |-> OpeningCell(x, y)[1],
          bestCol |-> OpeningCell(x, y)[2], board |-> b, touched |-> {},
          trace |-> <<>>, scores |-> {}]
    ELSE HelpLoops(b, player, depth)

\* The test that sends makeAIHelpMove into its do-while loop.
NeedsFallback(s) == s.bestRow = -1 \/ s.bestCol = -1

\* The cell the do-while loop draws from the values x and y of rand().
FallbackCell(x, y) == <<x % BOARD_SIZE, y % BOARD_SIZE>>

\* The rest of makeAIHelpMove after choice s: fx, fy are the values of rand()
\* in one pass of the do-while loop.  done is FALSE when the cell drawn is not
\* EMPTY, so that the loop goes round again.
HelpFinish(s, player, fx, fy) ==
    LET f == FallbackCell(fx, fy)
    IN  IF NeedsFallback(s)
        THEN IF s.board[f[1]][f[2]] # EMPTY
             THEN [row |-> f[1], col |-> f[2], board |-> s.board,
                   touched |-> s.touched, oob |-> FALSE,
                   trace |-> s.trace, scores |-> s.scores, done |-> FALSE]
             ELSE FinalStore(s, f[1], f[2], player) @@ [done |-> TRUE]
        ELSE StoreBest(s, player) @@ [done |-> TRUE]

makeAIHelpMove(b, player, depth, x, y, fx, fy) ==
    HelpFinish(HelpChoice(b, player, depth, x, y), player, fx, fy)

(***************************************************************************)
(* Positions the calls are made on.                                        *)
(***************************************************************************)
\* Largest value rand() is taken to return.
MaxRand == 14
RandVals == 0 .. MaxRand

\* Most cells a position of the search specifications leaves EMPTY, unless it
\* is an opening position.
MaxEmpty == 3

Cells == Idx \X Idx
CountOf(b, v) == Cardinality({p \in Cells : b[p[1]][p[2]] = v})
EmptyCells(b) == {p \in Cells : b[p[1]][p[2]] = EMPTY}
Stones(b) == {p \in Cells : b[p[1]][p[2]] # EMPTY}

\* Black moves first and the colours alternate: the colour to move on b.
ToMove(b) == IF CountOf(b, BLACK) = CountOf(b, WHITE) THEN BLACK ELSE WHITE
Balanced(b) == CountOf(b, BLACK) - CountOf(b, WHITE) \in {0, 1}

\* A full board (113 Black, 112 White) without five in a row: rows of runs of
\* four, shifted by two from one row to the next.
FillColour(r, c) == IF (c + 2 * r + 3) % 8 < 4 THEN BLACK ELSE WHITE
FullBoard == [i \in Idx |-> [j \in Idx |-> FillColour(i, j)]]

\* The cells taken out of FullBoard: three hold Black, three hold White.
HoleCells == {<<7, 7>>, <<0, 0>>, <<4, 5>>, <<7, 6>>, <<14, 0>>, <<8, 4>>}
WithHoles(H) ==
    [i \in Idx |-> [j \in Idx |-> IF <<i, j>> \in H THEN EMPTY ELSE FillColour(i, j)]]
DenseBoards ==
    {b \in {WithHoles(H) : H \in {G \in SUBSET HoleCells : Cardinality(G) <= MaxEmpty}} :
        Balanced(b)}

\* Opening positions: the stones of seq placed in turn, Black first.
RECURSIVE Played(_, _)
Played(seq, n) ==
    IF n = 0 THEN initBoard
    ELSE Put(Played(seq, n - 1), seq[n][1], seq[n][2],
             IF n % 2 = 1 THEN BLACK ELSE WHITE)
Openings ==
    { << <<7, 7>> >>, << <<7, 7>>, <<7, 8>> >>, << <<0, 0>> >>,
      << <<7, 7>>, <<8, 8>>, <<7, 8>> >>, << <<14, 14>>, <<13, 14>> >> }
OpeningBoards == {initBoard} \cup {Played(q, Len(q)) : q \in Openings}

Depths == {EASY_DEPTH, MEDIUM_DEPTH, HARD_DEPTH}

\* Fewest stones of a position that takes no further turn, unless it has at
\* most MaxEmpty cells EMPTY: the search from an opening position is costly.
MaxOpening == 1

\* The ghost record of the last call (in playGame: of the selection made in
\* the last turn): its inputs, the board it started from and what it did.
\* outcomes is the set of cells the call reports over all the values rand()
\* can return; win is what checkWin returned; val is the score returned;
\* has0 and win0 are hasWinner and winningPositions before checkWin; alpha,
\* beta, maximizingPlayer and cut belong to a call of minimax; trace and
\* scores are those of the loops of the call; line is the line typed in a
\* pass of the input loop.
NoCall ==
    [op |-> "none", player |-> EMPTY, depth |-> 0, row |-> -1, col |-> -1,
     outcomes |-> {}, board0 |-> initBoard, touched |-> {}, oob |-> FALSE,
     random |-> FALSE, win |-> 0, val |-> 0, has0 |-> 0, win0 |-> NoPositions,
     alpha |-> 0, beta |-> 0, maximizingPlayer |-> FALSE, cut |-> FALSE,
     trace |-> <<>>, scores |-> {}, line |-> <<>>]

(***************************************************************************)
(* playGame: one pass of the while (1) loop per action.                    *)
(***************************************************************************)
\* checkWin when the origin is off the board: player is whatever the load
\* board[row][col] yields; the scans themselves test the bounds first.
checkWinAs(b, r, c, player, hw, wp) ==
    IF InBoard(r, c) THEN checkWin(b, r, c, hw, wp)
    ELSE LET diag == << <<r, c>> >> \o WinWalk(b, r, c, 1, 1, player, 1)
         IN  IF Len(diag) >= 5
             THEN [ret |-> 1, hasWinner |-> 1,
                   winningPositions |-> [w \in 1 .. 5 |-> diag[w]]]
             ELSE [ret |-> 0, hasWinner |-> hw, winningPositions |-> wp]

\* The values a load from outside the board array is taken to yield.
StrayValues == {EMPTY, BLACK, WHITE}

\* The end of a pass, after the stone of the turn: moves++, checkWin(row, col),
\* the draw test, the change of currentPlayer.  w is the result of checkWin.
EndOfTurn(w) ==
    /\ moves' = moves + 1
    /\ winningPositions' = w.winningPositions
    /\ IF w.ret = 1
       THEN pc' = "over" /\ UNCHANGED currentPlayer
       ELSE IF moves + 1 = BOARD_SIZE * BOARD_SIZE
            THEN pc' = "over" /\ UNCHANGED currentPlayer
            ELSE /\ pc' = "turn"
                 /\ currentPlayer' = IF currentPlayer = BLACK THEN WHITE ELSE BLACK

\* The bound on the positions that take a turn: from a position with stones
\* that is not nearly full the search is run at the depth of Easy only.
MayMove(b) ==
    \/ Cardinality(EmptyCells(b)) <= MaxEmpty
    \/ /\ Cardinality(Stones(b)) < MaxOpening
       /\ Stones(b) = {} \/ AI_DEPTH = EASY_DEPTH

\* What the store outside the board array can do besides missing every
\* variable of the model: overwrite one of the int globals hasWinner, gameMode
\* and AI_DEPTH with WHITE, or end the process.
StrayOutcomes == {"miss", "hasWinner", "gameMode", "AI_DEPTH", "crash"}

\* White's turn in a game against the AI: makeAIMove(&row, &col), the update
\* of the last move, and the end of the pass.
AITurn ==
    /\ pc = "turn"
    /\ ~(currentPlayer = BLACK \/ gameMode = 1)
    /\ MayMove(board)
    /\ \E m \in {makeAIMove(board, AI_DEPTH)} :
         /\ board' = m.board
         /\ row' = m.row
         /\ col' = m.col
         /\ IF ~m.oob
            THEN \E w \in {checkWin(m.board, m.row, m.col, hasWinner, winningPositions)} :
                   /\ call' = [NoCall EXCEPT !.op = "makeAIMove", !.player = WHITE,
                                  !.depth = AI_DEPTH, !.row = m.row, !.col = m.col,
                                  !.outcomes = {<<m.row, m.col>>}, !.board0 = board,
                                  !.touched = m.touched, !.win = w.ret,
                                  !.trace = m.trace, !.scores = m.scores]
                   /\ hasWinner' = w.hasWinner
                   /\ lastMoveRow' = m.row
                   /\ lastMoveCol' = m.col
                   /\ EndOfTurn(w)
                   /\ UNCHANGED <<gameMode, AI_DEPTH>>
            ELSE \E out \in StrayOutcomes, v \in StrayValues :
                   \E w \in {checkWinAs(m.board, m.row, m.col, v,
                                        IF out = "hasWinner" THEN WHITE ELSE hasWinner,
                                        winningPositions)} :
                   /\ call' = [NoCall EXCEPT !.op = "makeAIMove", !.player = WHITE,
                                  !.depth = AI_DEPTH, !.row = m.row, !.col = m.col,
                                  !.outcomes = {<<m.row, m.col>>}, !.board0 = board,
                                  !.touched = m.touched, !.oob = TRUE,
                                  !.trace = m.trace, !.scores = m.scores,
                                  !.win = IF out = "crash" THEN 0 ELSE w.ret]
                   /\ gameMode' = IF out = "gameMode" THEN WHITE ELSE gameMode
                   /\ AI_DEPTH' = IF out = "AI_DEPTH" THEN WHITE ELSE AI_DEPTH
                   /\ IF out = "crash"
                      THEN /\ pc' = "crashed"
                           /\ UNCHANGED <<hasWinner, winningPositions, lastMoveRow,
                                          lastMoveCol, moves, currentPlayer>>
                      ELSE /\ hasWinner' = w.hasWinner
                           /\ lastMoveRow' = m.row
                           /\ lastMoveCol' = m.col
                           /\ EndOfTurn(w)

\* The values of rand() that matter to a call on b: the two of the opening
\* on an empty board, none otherwise.
OpeningDraws(b) == IF boardEmpty(b) THEN RandVals \X RandVals ELSE {<<0, 0>>}

\* The values of rand() that matter after choice s: those of the last pass
\* of the do-while loop if the loop is entered, none otherwise.
FallbackDraws(s) == IF NeedsFallback(s) THEN RandVals \X RandVals ELSE {<<0, 0>>}

\* The cells makeAIHelpMove can report after choice s on board b.
HelpOutcomes(b, s, player) ==
    IF boardEmpty(b)
    THEN {OpeningCell(d[1], d[2]) : d \in RandVals \X RandVals}
    ELSE IF NeedsFallback(s)
         THEN {FallbackCell(f[1], f[2]) :
                 f \in {g \in RandVals \X RandVals :
                           s.board[FallbackCell(g[1], g[2])[1]][FallbackCell(g[1], g[2])[2]]
                           = EMPTY}}
         ELSE {<<s.bestRow, s.bestCol>>}

\* Input '?': makeAIHelpMove(currentPlayer, &row, &col), the update of the
\* last move, and the end of the pass.
HelpTurn ==
    /\ pc = "turn"
    /\ currentPlayer = BLACK \/ gameMode = 1
    /\ MayMove(board)
    /\ \E d \in OpeningDraws(board) :
         \E s \in {HelpChoice(board, currentPlayer, AI_DEPTH, d[1], d[2])} :
           \E f \in FallbackDraws(s) :
             \E m \in {HelpFinish(s, currentPlayer, f[1], f[2])} :
               /\ m.done
               /\ \E w \in {checkWin(m.board, m.row, m.col, hasWinner, winningPositions)} :
                    /\ board' = m.board
                    /\ row' = m.row
                    /\ col' = m.col
                    /\ call' = [NoCall EXCEPT !.op = "makeAIHelpMove",
                                   !.player = currentPlayer, !.depth = AI_DEPTH,
                                   !.row = m.row, !.col = m.col,
                                   !.outcomes = HelpOutcomes(board, s, currentPlayer),
                                   !.board0 = board, !.touched = m.touched,
                                   !.oob = m.oob,
                                   !.trace = m.trace, !.scores = m.scores,
                                   !.random = boardEmpty(board) \/ NeedsFallback(s),
                                   !.win = w.ret]
                    /\ hasWinner' = w.hasWinner
                    /\ lastMoveRow' = m.row
                    /\ lastMoveCol' = m.col
                    /\ EndOfTurn(w)
    /\ UNCHANGED <<gameMode, AI_DEPTH>>

\* Input '?' on a board where no pass of the do-while loop of makeAIHelpMove
\* can end: every cell drawn is occupied and the loop goes round again.
HelpSpin ==
    /\ pc \in {"turn", "spinning"}
    /\ currentPlayer = BLACK \/ gameMode = 1
    /\ EmptyCells(board) = {}
    /\ NeedsFallback(HelpChoice(board, currentPlayer, AI_DEPTH, 0, 0))
    /\ pc' = "spinning"
    /\ call' = [NoCall EXCEPT !.op = "makeAIHelpMove", !.player = currentPlayer,
                              !.depth = AI_DEPTH, !.board0 = board, !.random = TRUE]
    /\ UNCHANGED <<board, hasWinner, winningPositions, AI_DEPTH, gameMode,
                   lastMoveRow, lastMoveCol, currentPlayer, moves, row, col>>

(***************************************************************************)
(* SpecSelect: the turns that makeAIMove and makeAIHelpMove play, from     *)
(* positions with few EMPTY cells left and from opening positions.         *)
(***************************************************************************)
\* The positions are taken at the top of the loop of playGame, the colours
\* having alternated so far.  DenseBoards holds the full board as well: it is
\* the input on which the selections are asked for "no legal move"; playGame
\* itself leaves the loop with a draw when moves reaches 225 (line 687).
\* The difficulty is asked for in a game against the AI only: with two players
\* AI_DEPTH keeps its initial value.
InitSelect ==
    /\ board \in DenseBoards \cup OpeningBoards
    /\ AI_DEPTH \in Depths
    /\ (board \in OpeningBoards => AI_DEPTH = EASY_DEPTH)
    /\ gameMode \in {1, 2}
    /\ (gameMode = 1 => AI_DEPTH = MEDIUM_DEPTH)
    /\ currentPlayer = ToMove(board)
    /\ moves = Cardinality(Stones(board))
    /\ hasWinner = 0
    /\ winningPositions = NoPositions
    /\ lastMoveRow = -1
    /\ lastMoveCol = -1
    /\ row = -1
    /\ col = -1
    /\ pc = "turn"
    /\ call = NoCall

NextSelect == AITurn \/ HelpTurn \/ HelpSpin

SpecSelect == InitSelect /\ [][NextSelect]_vars

(***************************************************************************)
(* SpecScan: checkWin, evaluatePosition and evaluateBoard called on boards *)
(* that hold a line of stones.                                             *)
(***************************************************************************)
\* Longest line of a board of SpecScan.
MaxRun == 6

\* Where the lines start: in a corner, so that the line begins at the edge,
\* and in the middle of the board.
Anchors(d) == IF d = 4 THEN {<<0, 14>>, <<7, 10>>} ELSE {<<0, 0>>, <<7, 3>>}

Other(p) == IF p = BLACK THEN WHITE ELSE BLACK

\* The k-th cell (k = 0, 1, ...) of the line from a in direction d.
LineCell(a, d, k) == <<a[1] + k * directions[d][1], a[2] + k * directions[d][2]>>

\* A second line of five away from every line of the family.
Elsewhere == {<<14, 9>>, <<14, 10>>, <<14, 11>>, <<14, 12>>, <<14, 13>>}

Decorations == {"none", "capLow", "capHigh", "capBoth", "gap", "otherFive", "sameFive"}

\* The board with len stones of p from a in direction d, decorated: an
\* opponent stone at one end or both, the third stone missing, or a five of
\* either colour elsewhere.
LineBoard(d, a, len, p, deco) ==
    [i \in Idx |-> [j \in Idx |->
        IF \E k \in 0 .. (len - 1) : <<i, j>> = LineCell(a, d, k) /\ ~(deco = "gap" /\ k = 2)
        THEN p
        ELSE IF /\ deco \in {"capLow", "capBoth"}
                /\ <<i, j>> = LineCell(a, d, -1)
        THEN Other(p)
        ELSE IF /\ deco \in {"capHigh", "capBoth"}
                /\ <<i, j>> = LineCell(a, d, len)
        THEN Other(p)
        ELSE IF deco = "otherFive" /\ <<i, j>> \in Elsewhere THEN Other(p)
        ELSE IF deco = "sameFive" /\ <<i, j>> \in Elsewhere THEN p
        ELSE EMPTY]]

InitScan ==
    /\ \/ \E d \in 1 .. 4, len \in 2 .. MaxRun, p \in {BLACK, WHITE}, deco \in Decorations :
            \E a \in Anchors(d) : board = LineBoard(d, a, len, p, deco)
       \/ board = initBoard
    /\ AI_DEPTH = MEDIUM_DEPTH
    /\ gameMode = 0
    /\ currentPlayer = BLACK
    /\ moves = 0
    /\ hasWinner = 0
    /\ winningPositions = NoPositions
    /\ lastMoveRow = -1
    /\ lastMoveCol = -1
    /\ row = -1
    /\ col = -1
    /\ pc = "call"
    /\ call = NoCall

\* checkWin(r, c) on a stone of the board, once, or once more after a call
\* that has found a win.
CallCheckWin ==
    /\ pc = "call"
    /\ call.op = "none" \/ (call.op = "checkWin" /\ call.has0 = 0 /\ hasWinner = 1)
    /\ \E p \in Stones(board) :
         \E w \in {checkWin(board, p[1], p[2], hasWinner, winningPositions)} :
           /\ hasWinner' = w.hasWinner
           /\ winningPositions' = w.winningPositions
           /\ call' = [NoCall EXCEPT !.op = "checkWin", !.row = p[1], !.col = p[2],
                                     !.player = board[p[1]][p[2]], !.win = w.ret,
                                     !.has0 = hasWinner, !.win0 = winningPositions]
    /\ UNCHANGED <<board, AI_DEPTH, gameMode, lastMoveRow, lastMoveCol,
                   currentPlayer, moves, row, col, pc>>

\* evaluatePosition(r, c, player) on a stone of the board and its owner.
CallEvaluatePosition ==
    /\ pc = "call"
    /\ call.op = "none"
    /\ \E p \in Stones(board) :
         call' = [NoCall EXCEPT !.op = "evaluatePosition", !.row = p[1], !.col = p[2],
                     !.player = board[p[1]][p[2]],
                     !.val = evaluatePosition(board, p[1], p[2], board[p[1]][p[2]])]
    /\ UNCHANGED <<board, hasWinner, winningPositions, AI_DEPTH, gameMode,
                   lastMoveRow, lastMoveCol, currentPlayer, moves, row, col, pc>>

\* evaluateBoard().
CallEvaluateBoard ==
    /\ pc = "call"
    /\ call.op = "none"
    /\ call' = [NoCall EXCEPT !.op = "evaluateBoard", !.val = evaluateBoard(board)]
    /\ UNCHANGED <<board, hasWinner, winningPositions, AI_DEPTH, gameMode,
                   lastMoveRow, lastMoveCol, currentPlayer, moves, row, col, pc>>

NextScan == CallCheckWin \/ CallEvaluatePosition \/ CallEvaluateBoard

SpecScan == InitScan /\ [][NextScan]_vars

(***************************************************************************)
(* SpecSearch: minimax called with every depth, several windows and either *)
(* side to move.                                                           *)
(***************************************************************************)
\* The (alpha, beta) windows of the calls: the full window of the selections,
\* a narrow one, an empty one and an inverted one.
Windows == {<<NEG_INF, INF>>, <<-100, 100>>, <<0, 0>>, <<1000, -1000>>}

\* Deepest search from a position that is not nearly full.
MaxSparseDepth == 1

\* The positions minimax is called on: nearly full ones, whoever is to move,
\* and two opening positions.
SearchHoles == {<<7, 7>>, <<0, 0>>, <<7, 6>>, <<14, 0>>}
SearchBoards ==
    {WithHoles(H) : H \in {G \in SUBSET SearchHoles : Cardinality(G) <= MaxEmpty}}
    \cup {Played(<< <<7, 7>> >>, 1), Played(<< <<14, 14>>, <<13, 14>> >>, 2)}

InitSearch ==
    /\ board \in SearchBoards
    /\ AI_DEPTH = MEDIUM_DEPTH
    /\ gameMode = 0
    /\ currentPlayer = BLACK
    /\ moves = 0
    /\ hasWinner = 0
    /\ winningPositions = NoPositions
    /\ lastMoveRow = -1
    /\ lastMoveCol = -1
    /\ row = -1
    /\ col = -1
    /\ pc = "call"
    /\ call = NoCall

\* minimax(depth, alpha, beta, maximizingPlayer).
CallMinimax ==
    /\ pc = "call"
    /\ call.op = "none"
    /\ \E depth \in 0 .. MAX_DEPTH, w \in Windows, maximizingPlayer \in BOOLEAN :
         /\ Cardinality(EmptyCells(board)) <= MaxEmpty \/ depth <= MaxSparseDepth
                                                      \/ depth >= MAX_DEPTH
         /\ \E m \in {minimax(board, depth, w[1], w[2], maximizingPlayer)} :
              /\ board' = m.board
              /\ call' = [NoCall EXCEPT !.op = "minimax", !.depth = depth,
                                        !.alpha = w[1], !.beta = w[2],
                                        !.maximizingPlayer = maximizingPlayer,
                                        !.board0 = board, !.touched = m.touched,
                                        !.val = m.val, !.cut = m.cut,
                                        !.trace = m.trace]
    /\ UNCHANGED <<hasWinner, winningPositions, AI_DEPTH, gameMode, lastMoveRow,
                   lastMoveCol, currentPlayer, moves, row, col, pc>>

NextSearch == CallMinimax

SpecSearch == InitSearch /\ [][NextSearch]_vars

(***************************************************************************)
(* playGame: the lines typed by the players, and the end of a game.        *)
(***************************************************************************)
\* Characters are their codes: '0' = 48, '9' = 57, 'A' = 65, 'E' = 69,
\* 'a' = 97, 'z' = 122, ' ' = 32, '\n' = 10.
isspace(ch) == ch \in {32, 9, 10, 11, 12, 13}

toupper(ch) == IF ch >= 97 /\ ch <= 122 THEN ch - 32 ELSE ch

\* sscanf(input, "%c %c", &rowInput, &colInput): the first character, then the
\* first character that is no white space after it; n is the value returned.
RECURSIVE SkipSpace(_, _)
SkipSpace(input, k) ==
    IF k <= Len(input) /\ isspace(input[k]) THEN SkipSpace(input, k + 1) ELSE k

sscanf(input) ==
    LET k == SkipSpace(input, 2)
    IN  IF k <= Len(input)
        THEN [n |-> 2, rowInput |-> input[1], colInput |-> input[k]]
        ELSE [n |-> 1, rowInput |-> input[1], colInput |-> 0]

\* The conversion of lines 594-612: '0'..'9' to 0..9, 'A'..'E' to 10..14; -1
\* stands for the branch that prints "Invalid ... coordinate".
Coordinate(ch) ==
    IF ch >= 48 /\ ch <= 57 THEN ch - 48
    ELSE IF ch >= 65 /\ ch <= 69 THEN 10 + (ch - 65)
    ELSE -1

\* HumanLine with the test of line 614 reduced to the bounds.
HumanLineInBounds(b, r0, c0, input) ==
    LET in == sscanf(input)
        r == Coordinate(toupper(in.rowInput))
        c == Coordinate(toupper(in.colInput))
    IN  IF in.n # 2 THEN [validMove |-> 0, row |-> r0, col |-> c0]
        ELSE IF r = -1 THEN [validMove |-> 0, row |-> r0, col |-> c0]
        ELSE IF c = -1 THEN [validMove |-> 0, row |-> r, col |-> c0]
        ELSE IF r < 0 \/ r >= BOARD_SIZE \/ c < 0 \/ c >= BOARD_SIZE
        THEN [validMove |-> 0, row |-> r, col |-> c]
        ELSE [validMove |-> 1, row |-> r, col |-> c]

\* One pass of the loop while (!validMove) on a line that begins with neither
\* 'q' nor '?': validMove, row and col at the end of the pass, r0 and c0 being
\* row and col at its start.
HumanLine(b, r0, c0, input) ==
    LET in == sscanf(input)
        r == Coordinate(toupper(in.rowInput))
        c == Coordinate(toupper(in.colInput))
    IN  IF in.n # 2 THEN [validMove |-> 0, row |-> r0, col |-> c0]
        ELSE IF r = -1 THEN [validMove |-> 0, row |-> r0, col |-> c0]
        ELSE IF c = -1 THEN [validMove |-> 0, row |-> r, col |-> c0]
        ELSE IF r < 0 \/ r >= BOARD_SIZE \/ c < 0 \/ c >= BOARD_SIZE \/ b[r][c] # EMPTY
        THEN [validMove |-> 0, row |-> r, col |-> c]
        ELSE [validMove |-> 1, row |-> r, col |-> c]

\* The lines typed: "77", "00", "e0", "7 e", "F7", "7:", "7" and the empty
\* line, each with its '\n'.
Lines ==
    { <<55, 55, 10>>, <<48, 48, 10>>, <<101, 48, 10>>, <<55, 32, 101, 10>>,
      <<70, 55, 10>>, <<55, 58, 10>>, <<55, 10>>, <<10>> }

\* Most stones of a position on which a typed move is taken, unless it has at
\* most MaxEmpty cells EMPTY.
MaxTyped == 1

MayType(b) ==
    \/ Cardinality(EmptyCells(b)) <= MaxEmpty
    \/ Cardinality(Stones(b)) < MaxTyped

\* A typed line in the turn of a human player: a pass of the loop while
\* (!validMove) and, when the move is valid, the store of the stone and the
\* end of the pass of the outer loop.
HumanTurn ==
    /\ pc = "turn"
    /\ currentPlayer = BLACK \/ gameMode = 1
    /\ MayType(board)
    /\ \E input \in Lines :
         \E h \in {HumanLine(board, row, col, input)} :
           /\ row' = h.row
           /\ col' = h.col
           /\ IF h.validMove = 1
              THEN \E b \in {Put(board, h.row, h.col, currentPlayer)} :
                     \E w \in {checkWin(b, h.row, h.col, hasWinner, winningPositions)} :
                       /\ board' = b
                       /\ call' = [NoCall EXCEPT !.op = "move", !.player = currentPlayer,
                                      !.row = h.row, !.col = h.col, !.board0 = board,
                                      !.touched = {<<h.row, h.col>>}, !.win = w.ret,
                                      !.line = input]
                       /\ hasWinner' = w.hasWinner
                       /\ lastMoveRow' = h.row
                       /\ lastMoveCol' = h.col
                       /\ EndOfTurn(w)
              ELSE /\ call' = [NoCall EXCEPT !.op = "rejected", !.player = currentPlayer,
                                  !.row = h.row, !.col = h.col, !.board0 = board,
                                  !.line = input]
                   /\ UNCHANGED <<board, hasWinner, winningPositions, lastMoveRow,
                                  lastMoveCol, currentPlayer, moves, pc>>
    /\ UNCHANGED <<gameMode, AI_DEPTH>>

\* Input 'q': playGame returns.
Quit ==
    /\ pc = "turn"
    /\ currentPlayer = BLACK \/ gameMode = 1
    /\ pc' = "quit"
    /\ UNCHANGED <<board, hasWinner, winningPositions, AI_DEPTH, gameMode,
                   lastMoveRow, lastMoveCol, currentPlayer, moves, row, col, call>>

\* "Play again?" answered with 'y' or 'Y': the next pass of the do-while loop
\* begins with the reset of lines 533-547.
PlayAgain ==
    /\ pc = "over"
    /\ board' = initBoard
    /\ moves' = 0
    /\ currentPlayer' = BLACK
    /\ lastMoveRow' = -1
    /\ lastMoveCol' = -1
    /\ hasWinner' = 0
    /\ winningPositions' = NoPositions
    /\ pc' = "turn"
    /\ call' = [NoCall EXCEPT !.op = "reset"]
    /\ UNCHANGED <<AI_DEPTH, gameMode, row, col>>

\* "Play again?" answered with anything else: playGame ends.
Goodbye ==
    /\ pc = "over"
    /\ pc' = "done"
    /\ UNCHANGED <<board, hasWinner, winningPositions, AI_DEPTH, gameMode,
                   lastMoveRow, lastMoveCol, currentPlayer, moves, row, col, call>>

(***************************************************************************)
(* SpecGame: the loop of playGame, from the start of a game and from       *)
(* positions with few EMPTY cells left.                                    *)
(***************************************************************************)
\* A second full board without five in a row, on which the cells (0, 0),
\* (1, 1), (2, 2) and (3, 3) hold White.
FillColourDiag(r, c) == IF (c + 6 * r + 7) % 8 < 4 THEN BLACK ELSE WHITE
DiagBoard ==
    [i \in Idx |-> [j \in Idx |->
        IF <<i, j>> \in {<<7, 7>>, <<7, 6>>} THEN EMPTY ELSE FillColourDiag(i, j)]]

\* The cells taken out of FullBoard, all of them cells a line of Lines names:
\* two hold Black, two hold White.
GameHoles == {<<7, 7>>, <<0, 0>>, <<14, 0>>, <<7, 14>>}
GameBoards ==
    {b \in {WithHoles(H) : H \in {G \in SUBSET GameHoles :
                                     Cardinality(G) \in 1 .. MaxEmpty}} :
        Balanced(b)}
    \cup {DiagBoard, initBoard}

\* The positions are taken at the top of the loop while (1), the colours
\* having alternated so far; row and col are not read before they are stored
\* to.
InitGame ==
    /\ board \in GameBoards
    /\ AI_DEPTH \in Depths
    /\ gameMode \in {1, 2}
    /\ (gameMode = 1 => AI_DEPTH = MEDIUM_DEPTH)
    /\ currentPlayer = ToMove(board)
    /\ moves = Cardinality(Stones(board))
    /\ hasWinner = 0
    /\ winningPositions = NoPositions
    /\ lastMoveRow = -1
    /\ lastMoveCol = -1
    /\ row = -1
    /\ col = -1
    /\ pc = "turn"
    /\ call = NoCall

NextGame == HumanTurn \/ HelpTurn \/ AITurn \/ Quit \/ PlayAgain \/ Goodbye

SpecGame == InitGame /\ [][NextGame]_vars

(***************************************************************************)
(* Properties of checkWin (SpecScan).                                      *)
(***************************************************************************)
\* The five cells of the line through (r, c) in direction d that starts s
\* steps from it (s = -4 .. 0).
FiveFrom(r, c, d, s) == {LineCell(<<r, c>>, d, s + k) : k \in 0 .. 4}

\* Every cell of L is on the board and holds a stone of p.
OwnedBy(b, L, p) == \A q \in L : InBoard(q[1], q[2]) /\ b[q[1]][q[2]] = p

\* (r, c) holds a stone that lies on a straight line of five or more
\* contiguous stones of its owner.
OnFive(b, r, c) ==
    /\ b[r][c] # EMPTY
    /\ \E d \in 1 .. 4, s \in -4 .. 0 : OwnedBy(b, FiveFrom(r, c, d, s), b[r][c])

\* The coordinates winningPositions holds.
Recorded == {winningPositions[w] : w \in 1 .. 5}

\* C1: checkWin(row, col) on a stone of P that lies on a line of five or more
\* contiguous stones of P reports a win and records exactly 5 coordinates,
\* all on the board, all owned by P, pairwise distinct, consecutive along one
\* direction, the origin among them.
C1_CheckWinRecordsFive ==
    (call.op = "checkWin" /\ OnFive(board, call.row, call.col)) =>
        /\ call.win = 1
        /\ hasWinner = 1
        /\ Cardinality(Recorded) = 5
        /\ OwnedBy(board, Recorded, call.player)
        /\ \E d \in 1 .. 4, s \in -4 .. 0 :
              Recorded = FiveFrom(call.row, call.col, d, s)

\* C1's case: a win found from a stone inside a line of more than five, with
\* stones of the line on both sides of it.
C1_Witness ==
    /\ call.op = "checkWin"
    /\ call.win = 1
    /\ OnFive(board, call.row, call.col)
    /\ \E d \in 1 .. 4 :
         OwnedBy(board, {LineCell(<<call.row, call.col>>, d, k) : k \in -2 .. 3},
                 call.player)

\* C2: checkWin(row, col) on a stone through which no line of five or more
\* contiguous stones of its owner passes returns 0 and leaves hasWinner and
\* winningPositions as they were, also with a five elsewhere on the board.
C2_CheckWinLocal ==
    (call.op = "checkWin" /\ ~OnFive(board, call.row, call.col)) =>
        /\ call.win = 0
        /\ hasWinner = call.has0
        /\ winningPositions = call.win0

\* C2's case: no win from a stone with no stone of a five next to it, on a
\* board that holds a five, after a call that has recorded that five.
C2_Witness ==
    /\ call.op = "checkWin"
    /\ call.win = 0
    /\ call.has0 = 1
    /\ hasWinner = 1
    /\ \E q \in Stones(board) : OnFive(board, q[1], q[2])
    /\ \A q \in Stones(board) :
         (q[1] - call.row \in -1 .. 1 /\ q[2] - call.col \in -1 .. 1)
             => ~OnFive(board, q[1], q[2])

(***************************************************************************)
(* Properties of evaluatePosition and evaluateBoard (SpecScan).            *)
(***************************************************************************)
\* The stones of p that follow (r, c) without a gap along (dr, dc), four at
\* most.
SideRun(b, r, c, dr, dc, p) ==
    CHOOSE n \in 0 .. 4 :
        /\ OwnedBy(b, {<<r + dr * k, c + dc * k>> : k \in 1 .. n}, p)
        /\ n = 4 \/ ~OwnedBy(b, {<<r + dr * (n + 1), c + dc * (n + 1)>>}, p)

\* 1 when that side ends, within four steps, at the edge of the board or at
\* a stone of the opponent; 0 when it ends at an EMPTY cell or does not end.
SideBlocked(b, r, c, dr, dc, p) ==
    IF /\ SideRun(b, r, c, dr, dc, p) < 4
       /\ \/ ~InBoard(r + dr * (SideRun(b, r, c, dr, dc, p) + 1),
                      c + dc * (SideRun(b, r, c, dr, dc, p) + 1))
          \/ b[r + dr * (SideRun(b, r, c, dr, dc, p) + 1)]
               [c + dc * (SideRun(b, r, c, dr, dc, p) + 1)] # EMPTY
    THEN 1 ELSE 0

\* The table of scores by run length and blocked sides.
ScoreTable(run, blocked) ==
    CASE run >= 5 -> 100000
      [] run = 4 /\ blocked = 0 -> 10000
      [] run = 4 /\ blocked = 1 -> 1000
      [] run = 3 /\ blocked = 0 -> 1000
      [] run = 3 /\ blocked = 1 -> 100
      [] run = 2 /\ blocked = 0 -> 100
      [] OTHER -> 0

\* The table's score of direction d at (r, c) for p.
TableScore(b, r, c, p, d) ==
    ScoreTable(1 + SideRun(b, r, c, directions[d][1], directions[d][2], p)
                 + SideRun(b, r, c, -directions[d][1], -directions[d][2], p),
               SideBlocked(b, r, c, directions[d][1], directions[d][2], p)
                 + SideBlocked(b, r, c, -directions[d][1], -directions[d][2], p))

\* The horizontal four at row 7, columns 3 .. 6, alone on the board.
IsolatedFour(p) == LineBoard(1, <<7, 3>>, 4, p, "none")

\* C9: evaluatePosition on a stone and its owner P returns the sum over the
\* four directions of the table's score of (run, blocked); at either end of
\* an isolated horizontal four with both ends open that is 10000, all of it
\* from the horizontal direction.
C9_EvaluatePositionTable ==
    call.op = "evaluatePosition" =>
        /\ call.val = TableScore(board, call.row, call.col, call.player, 1)
                      + TableScore(board, call.row, call.col, call.player, 2)
                      + TableScore(board, call.row, call.col, call.player, 3)
                      + TableScore(board, call.row, call.col, call.player, 4)
        /\ (board = IsolatedFour(call.player) /\ call.col \in {3, 6}) =>
               (call.val = 10000 /\ EvalDir(board, call.row, call.col, call.player, 1) = 10000)

\* C9's case: the score at the end stone (7, 6) of the isolated four.
C9_Witness ==
    /\ call.op = "evaluatePosition"
    /\ board = IsolatedFour(BLACK)
    /\ call.row = 7 /\ call.col = 6
    /\ call.val = 10000

\* The board with the colours of the stones exchanged.
Swapped(b) ==
    [i \in Idx |-> [j \in Idx |->
        IF b[i][j] = BLACK THEN WHITE ELSE IF b[i][j] = WHITE THEN BLACK ELSE EMPTY]]

\* C10: evaluateBoard of the board with the colours exchanged is minus
\* evaluateBoard of the board, and evaluateBoard of the empty board is 0.
C10_EvaluateBoardAntisymmetric ==
    call.op = "evaluateBoard" =>
        /\ evaluateBoard(Swapped(board)) = 0 - call.val
        /\ board = initBoard => call.val = 0

\* C10's case: a board with stones of both colours and a score that is not 0.
C10_Witness ==
    /\ call.op = "evaluateBoard"
    /\ call.val # 0
    /\ CountOf(board, BLACK) > 0
    /\ CountOf(board, WHITE) > 0

(***************************************************************************)
(* Properties of the selections (SpecSelect) and of minimax (SpecSearch).  *)
(***************************************************************************)
\* The last turn has called a selection, and the call has returned.
Selected ==
    /\ call.op \in {"makeAIMove", "makeAIHelpMove"}
    /\ pc # "spinning"

\* Every cell of the board but (r, c) holds what it held at the call.
OthersUnchanged(r, c) ==
    \A p \in Cells : p # <<r, c>> => board[p[1]][p[2]] = call.board0[p[1]][p[2]]

\* C3: on a board with an EMPTY cell, at depth 2, 3 or 4, the selection
\* returns a cell of the board that was EMPTY at the call, only that cell of
\* the board has changed, and nothing was stored outside the board.
C3_SelectionReturnsEmptyCell ==
    (Selected /\ EmptyCells(call.board0) # {} /\ call.depth \in Depths) =>
        /\ InBoard(call.row, call.col)
        /\ call.board0[call.row][call.col] = EMPTY
        /\ OthersUnchanged(call.row, call.col)
        /\ ~call.oob

\* C4: when minimax returns, the board is cell for cell the board of the
\* call, and no cell that held a stone at the call was stored to.
C4_MinimaxRestoresBoard ==
    call.op = "minimax" =>
        /\ board = call.board0
        /\ call.touched \cap Stones(call.board0) = {}

\* C4's case: a search of two plies or more that has simulated stones and
\* has returned from inside its loops, on the cutoff.
C4_Witness ==
    /\ call.op = "minimax"
    /\ call.depth >= 2
    /\ call.cut
    /\ Cardinality(call.touched) >= 2
    /\ board = call.board0

\* C5 as stated: after the selection returns, the board is the board of the
\* call.
C5_BoardUnchanged == Selected => board = call.board0

\* C5, amended: after the selection returns, every cell but the returned one
\* holds what it held at the call, and the returned cell, when it is a cell
\* of the board, was EMPTY at the call and now holds the mover's stone: the
\* selection itself has placed it.
C5_OnlyReturnedCellChanges ==
    Selected =>
        /\ OthersUnchanged(call.row, call.col)
        /\ InBoard(call.row, call.col) =>
              /\ call.board0[call.row][call.col] = EMPTY
              /\ board[call.row][call.col] = call.player

\* C5's case: makeAIMove has searched from two candidates or more and has
\* left White's stone on the cell it returns.
C5_Witness ==
    /\ Selected
    /\ call.op = "makeAIMove"
    /\ InBoard(call.row, call.col)
    /\ Cardinality(call.touched) >= 2
    /\ board[call.row][call.col] = WHITE
    /\ board # call.board0

\* C6: from a board with a stone on it, the cell a selection returns is the
\* same whatever rand() yields.
C6_Deterministic ==
    (Selected /\ Stones(call.board0) # {}) => Cardinality(call.outcomes) <= 1

C8_OpeningNearCentre ==
    (Selected /\ Stones(call.board0) = {}) =>
        /\ call.row \in 6 .. 8
        /\ call.col \in 6 .. 8
        /\ call.outcomes \subseteq (6 .. 8) \X (6 .. 8)
        /\ board[call.row][call.col] = call.player

\* C8's case: Black's request for help on the empty board, answered with a
\* corner of the centre square, all nine cells being possible.
C8_Witness ==
    /\ Selected
    /\ call.op = "makeAIHelpMove"
    /\ Stones(call.board0) = {}
    /\ call.row = 6 /\ call.col = 8
    /\ Cardinality(call.outcomes) = 9

\* The candidates of board b: the EMPTY cells with a stone in the square of
\* SEARCH_RANGE around them.
Candidates(b) == {p \in Cells : IsCandidate(b, p[1], p[2])}

\* C11: minimax called with depth 0 returns evaluateBoard() of the board of
\* the call, whatever the window and the side to move; it simulates no stone,
\* stores to no cell and leaves the board as it was.
C11_DepthZeroIsStaticEvaluation ==
    (call.op = "minimax" /\ call.depth = 0) =>
        /\ call.val = evaluateBoard(call.board0)
        /\ call.trace = <<>>
        /\ call.touched = {}
        /\ ~call.cut
        /\ board = call.board0

\* C11's case: a call with depth 0 for the minimizing side and the inverted
\* window, on a board that has candidates and a score that is not 0.
C11_Witness ==
    /\ call.op = "minimax"
    /\ call.depth = 0
    /\ ~call.maximizingPlayer
    /\ call.alpha > call.beta
    /\ Candidates(call.board0) # {}
    /\ call.val # 0
    /\ call.val = evaluateBoard(board)

\* C18: minimax called with a depth of 1 .. 4 on a board without candidates
\* returns evaluateBoard() of that board, for either side.
C18_NoCandidateIsStaticEvaluation ==
    (call.op = "minimax" /\ call.depth \in 1 .. 4 /\ Candidates(call.board0) = {}) =>
        call.val = evaluateBoard(call.board0)

(***************************************************************************)
(* The order of the simulated stones.                                      *)
(***************************************************************************)
\* The EMPTY cells of b at Chebyshev distance 2 or less from a stone.
Distance(p, q) ==
    LET dr == IF p[1] > q[1] THEN p[1] - q[1] ELSE q[1] - p[1]
        dc == IF p[2] > q[2] THEN p[2] - q[2] ELSE q[2] - p[2]
    IN  IF dr > dc THEN dr ELSE dc
Near(b) == {p \in EmptyCells(b) : \E q \in Stones(b) : Distance(p, q) <= 2}

\* The cells of S in row-major order.
RowMajorBefore(p, q) == p[1] < q[1] \/ (p[1] = q[1] /\ p[2] < q[2])
RowMajor(S) ==
    [n \in 1 .. Cardinality(S) |->
        CHOOSE p \in S : Cardinality({q \in S : RowMajorBefore(q, p)}) = n - 1]

IsPrefix(a, b) == Len(a) <= Len(b) /\ a = SubSeq(b, 1, Len(a))

\* The cells of the entries of trace t.
CellsOf(t) == [n \in 1 .. Len(t) |-> <<t[n][2], t[n][3]>>]

\* The entries of t made at depth d.
AtDepth(t, d) == LET Made(e) == e[1] = d IN SelectSeq(t, Made)

\* The first index from k on where t holds an entry of depth d or more, or
\* Len(t) + 1: the end of what the node below an entry of depth d has done.
RECURSIVE RunEnd(_, _, _)
RunEnd(t, d, k) ==
    IF k > Len(t) \/ t[k][1] >= d THEN k ELSE RunEnd(t, d, k + 1)

\* The stones the node called under entry m of t has simulated itself.
Below(t, m) == AtDepth(SubSeq(t, m + 1, RunEnd(t, t[m][1], m + 1) - 1), t[m][1] - 1)

\* The entry under which the node that made entry n was called: 0 if it is
\* the call itself.
RECURSIVE Caller(_, _, _)
Caller(t, n, k) ==
    IF k = 0 \/ t[k][1] > t[n][1] THEN k ELSE Caller(t, n, k - 1)

\* The board right after the store of entry n of t, b0 being the board of the
\* call: the stones of the callers and the stone of the entry are on it.
RECURSIVE BoardAfter(_, _, _)
BoardAfter(b0, t, n) ==
    IF n = 0 THEN b0
    ELSE Put(BoardAfter(b0, t, Caller(t, n, n - 1)), t[n][2], t[n][3], t[n][4])

\* C19: the cells a call of minimax or of a selection simulates a stone on
\* are the EMPTY cells at Chebyshev distance 2 or less from a stone, in
\* row-major order: all of them if the loops run to their end, the first of
\* them if the loops are left on a cutoff; the same for every node below.
C19_CandidatesInRowMajorOrder ==
    (call.op \in {"minimax", "makeAIMove", "makeAIHelpMove"} /\ call.depth \in 1 .. 4) =>
        /\ IsPrefix(CellsOf(AtDepth(call.trace, call.depth)), RowMajor(Near(call.board0)))
        /\ ~call.cut =>
              CellsOf(AtDepth(call.trace, call.depth)) = RowMajor(Near(call.board0))
        /\ \A m \in 1 .. Len(call.trace) :
              call.trace[m][1] >= 2 =>
                 IsPrefix(CellsOf(Below(call.trace, m)),
                          RowMajor(Near(BoardAfter(call.board0, call.trace, m))))

\* C19's case: a search of one ply from the stone in the corner (14, 14),
\* where the square around a cell is clipped.
C19_Witness ==
    /\ call.op = "minimax"
    /\ call.depth = 1
    /\ call.board0[14][14] # EMPTY
    /\ ~call.cut
    /\ Len(call.trace) = 10
    /\ call.trace[1] = <<1, 11, 12, IF call.maximizingPlayer THEN WHITE ELSE BLACK>>

(***************************************************************************)
(* Properties of the scores and of the sides in the look-ahead             *)
(* (SpecSelect).                                                           *)
(***************************************************************************)
\* C16: the cell makeAIHelpMove places the stone of player P on, the board
\* holding a stone already, is a candidate whose score is the greatest of all
\* the scores when P is White and the least of them when P is Black.
C16_HelpBestForMover ==
    (Selected /\ call.op = "makeAIHelpMove" /\ Stones(call.board0) # {}) =>
        \E e \in call.scores :
            /\ e[1] = call.row /\ e[2] = call.col
            /\ \A f \in call.scores :
                  IF call.player = WHITE THEN f[3] <= e[3] ELSE f[3] >= e[3]

\* C17: in a selection every stone simulated by the selection itself is of
\* the mover's colour, and every stone simulated by a node of the search is
\* of the colour opposite to the stone under which the node was called.
C17_SidesAlternate ==
    (Selected /\ call.depth \in Depths) =>
        \A n \in 1 .. Len(call.trace) :
            IF call.trace[n][1] = call.depth
            THEN call.trace[n][4] = call.player
            ELSE call.trace[n][4] # call.trace[Caller(call.trace, n, n - 1)][4]

\* C20: on a board with a candidate, makeAIMove returns a candidate whose
\* score, minimax(AI_DEPTH - 1, NEG_INF, INF, 0) after White's simulated
\* stone, is the greatest of all the scores, and the first such candidate in
\* row-major order.
C20_GreatestScoreFirstInOrder ==
    (Selected /\ call.op = "makeAIMove" /\ Candidates(call.board0) # {}) =>
        \E e \in call.scores :
            /\ e[1] = call.row /\ e[2] = call.col
            /\ e[3] = minimax(Put(call.board0, e[1], e[2], WHITE), call.depth - 1,
                              NEG_INF, INF, FALSE).val
            /\ \A f \in call.scores :
                  /\ f[3] <= e[3]
                  /\ f[3] = e[3] => ~RowMajorBefore(f, e)

(***************************************************************************)
(* Properties of the game loop (SpecGame).                                 *)
(***************************************************************************)
\* The last step has completed a turn: a typed move that was accepted, a
\* help move or a move of the AI, followed by the end of the pass.
TurnTaken ==
    /\ call.op \in {"move", "makeAIMove", "makeAIHelpMove"}
    /\ pc \in {"turn", "over", "done"}

\* The game has ended, with a win or with a draw.
WinAnnounced == TurnTaken /\ pc \in {"over", "done"} /\ call.win = 1
DrawAnnounced == TurnTaken /\ pc \in {"over", "done"} /\ call.win = 0

\* The turn has put exactly one stone on the board: the mover's, on the cell
\* (row, col), which was EMPTY.
StonePlaced ==
    /\ InBoard(call.row, call.col)
    /\ call.board0[call.row][call.col] = EMPTY
    /\ board = Put(call.board0, call.row, call.col, call.player)

\* C12: a turn ends the game with a win exactly when the stone it has placed
\* lies on a line of five or more contiguous stones of the mover; the winner
\* announced is the mover; once the game has ended the board holds the stones
\* it held before the last turn and the stone of that turn, no other.
C12_WinIffFiveThroughPlacedStone ==
    TurnTaken =>
        /\ WinAnnounced <=> (StonePlaced /\ OnFive(board, call.row, call.col))
        /\ WinAnnounced => currentPlayer = call.player
        /\ pc \in {"over", "done"} => StonePlaced

\* C13: a turn ends the game with a draw exactly when it has filled the board
\* without winning: no draw with an EMPTY cell left, no draw on a winning
\* 225th stone, and no stone after the draw.
C13_DrawIffBoardFilled ==
    TurnTaken =>
        /\ DrawAnnounced <=>
              /\ EmptyCells(board) = {}
              /\ StonePlaced
              /\ ~OnFive(board, call.row, call.col)
        /\ DrawAnnounced => Cardinality(Stones(board)) = BOARD_SIZE * BOARD_SIZE

\* C14: a game starts on the empty board with Black to move; every turn puts
\* one stone of the mover on the board; after a turn that does not end the
\* game the other colour is to move; so Black is to move exactly when the
\* board holds as many Black stones as White ones, and White when it holds
\* one Black stone more.
C14_BlackFirstThenAlternate ==
    /\ call.op = "reset" => board = initBoard /\ currentPlayer = BLACK /\ moves = 0
    /\ TurnTaken =>
          /\ StonePlaced
          /\ pc = "turn" => currentPlayer = Other(call.player)
    /\ pc = "turn" => Balanced(board) /\ currentPlayer = ToMove(board)

\* The coordinate a character names: '0'..'9' name 0..9 and the letters a..e,
\* in either case, name 10..14; any other character names none.
Glyphs == [k \in 0 .. 14 |-> IF k < 10 THEN {48 + k} ELSE {55 + k, 87 + k}]
Named(ch) ==
    IF \E k \in 0 .. 14 : ch \in Glyphs[k]
    THEN CHOOSE k \in 0 .. 14 : ch \in Glyphs[k]
    ELSE -1

\* The cell a typed line names: its first character names the row and the
\* first character after it that is neither blank nor the end of the line
\* names the column; <<-1, -1>> if there is no such character or one of the
\* two names no coordinate.
TypedCell(input) ==
    LET Visible(ch) == ch \notin {32, 10}
        rest == SelectSeq(Tail(input), Visible)
    IN  IF rest = <<>> \/ Named(input[1]) = -1 \/ Named(rest[1]) = -1
        THEN <<-1, -1>>
        ELSE <<Named(input[1]), Named(rest[1])>>

\* A step in which a typed line has been handled.
LineHandled ==
    /\ pc = "turn"
    /\ pc' \in {"turn", "over"}
    /\ call'.op \in {"move", "rejected"}

\* C15: a typed line that names no cell of the board, or a cell that is not
\* EMPTY, changes neither the board nor the move counter nor the last move
\* nor the player to move, and the same player is asked again; any other
\* line puts the mover's stone on the cell it names, which is on the board
\* and EMPTY, and counts one move.
C15_InvalidMoveRejected ==
    [][LineHandled =>
          LET t == TypedCell(call'.line)
          IN  IF InBoard(t[1], t[2]) /\ board[t[1]][t[2]] = EMPTY
              THEN /\ call'.op = "move"
                   /\ board' = Put(board, t[1], t[2], currentPlayer)
                   /\ moves' = moves + 1
                   /\ lastMoveRow' = t[1] /\ lastMoveCol' = t[2]
              ELSE /\ call'.op = "rejected"
                   /\ pc' = "turn"
                   /\ UNCHANGED <<board, moves, lastMoveRow, lastMoveCol,
                                  currentPlayer>>]_vars

\* C15's case: White, in a game of two players, has typed "77" while (7, 7)
\* holds a stone, after a move that was accepted.
C15_Witness ==
    /\ call.op = "rejected"
    /\ call.line = <<55, 55, 10>>
    /\ call.player = WHITE
    /\ board[7][7] # EMPTY
    /\ board = call.board0
    /\ lastMoveRow # -1
    /\ pc = "turn"

(***************************************************************************)
(* The search without cutoffs (SpecSearch).                                *)
(***************************************************************************)
\* The greatest and the least number of a set that is not empty.
Greatest(S) == CHOOSE v \in S : \A w \in S : w <= v
Least(S) == CHOOSE v \in S : \A w \in S : v <= w

RECURSIVE SumOver(_, _)
SumOver(f, S) ==
    IF S = {} THEN 0
    ELSE LET p == CHOOSE q \in S : TRUE IN f[p] + SumOver(f, S \ {p})

\* The depth-limited minimax over the cells of Near, with no window and no
\* cutoff: val is its value and stores the number of stones it simulates.  A
\* node without candidates has the value NEG_INF when it maximizes and INF
\* when it minimizes.
RECURSIVE PlainMinimax(_, _, _)
PlainMinimax(b, depth, maximizingPlayer) ==
    IF depth = 0 \/ depth >= MAX_DEPTH
    THEN [val |-> evaluateBoard(b), stores |-> 0]
    ELSE LET sub == [p \in Near(b) |->
                        PlainMinimax(Put(b, p[1], p[2],
                                         IF maximizingPlayer THEN WHITE ELSE BLACK),
                                     depth - 1, ~maximizingPlayer)]
             vals == {sub[p].val : p \in Near(b)}
         IN  [val |-> IF vals = {}
                      THEN IF maximizingPlayer THEN NEG_INF ELSE INF
                      ELSE IF maximizingPlayer THEN Greatest(vals) ELSE Least(vals),
              stores |-> Cardinality(Near(b))
                         + SumOver([p \in Near(b) |-> sub[p].stores], Near(b))]

\* The call of minimax had the full window.
FullWindow == call.op = "minimax" /\ call.alpha = NEG_INF /\ call.beta = INF

\* C21: minimax called with the full window and a depth of 0 .. 4 returns the
\* value of the depth-limited minimax without cutoffs, for either side.
C21_PruningKeepsTheValue ==
    (FullWindow /\ call.depth \in 0 .. 4) =>
        call.val = PlainMinimax(call.board0, call.depth, call.maximizingPlayer).val

\* C21's case: a search of three plies or more that has skipped candidates,
\* simulating fewer stones than the search without cutoffs, and returns a
\* score of the board.
C21_Witness ==
    /\ FullWindow
    /\ call.depth \in 3 .. 4
    /\ call.val \notin {NEG_INF, INF}
    /\ Len(call.trace) < PlainMinimax(call.board0, call.depth, call.maximizingPlayer).stores
    /\ call.val = PlainMinimax(call.board0, call.depth, call.maximizingPlayer).val

(***************************************************************************)
(* Invariants of the game loop (SpecGame).                                 *)
(***************************************************************************)
\* A line of five or more contiguous stones of one colour is on b: five
\* cells in a row, from some cell p in some direction d, hold the same stone.
FiveOnBoard(b) ==
    \E p \in Cells, d \in 1 .. 4 :
        /\ b[p[1]][p[2]] # EMPTY
        /\ \A k \in 1 .. 4 :
              /\ InBoard(LineCell(p, d, k)[1], LineCell(p, d, k)[2])
              /\ b[LineCell(p, d, k)[1]][LineCell(p, d, k)[2]] = b[p[1]][p[2]]

\* C22: while a player is about to move, no line of five or more contiguous
\* stones of one colour is on the board; and a turn that leaves such a line
\* on the board has ended the game with a win.
C22_NoFiveWhileRunning ==
    /\ pc = "turn" => ~FiveOnBoard(board)
    /\ (TurnTaken /\ FiveOnBoard(board)) => WinAnnounced

\* C22's case: Black's stone on (7, 7) has made a line of four, (7, 7) ..
\* (7, 10), checkWin has found no win and White is about to move.
C22_Witness ==
    /\ TurnTaken
    /\ pc = "turn"
    /\ call.row = 7 /\ call.col = 7
    /\ call.player = BLACK
    /\ call.win = 0
    /\ OwnedBy(board, {<<7, 7>>, <<7, 8>>, <<7, 9>>, <<7, 10>>}, BLACK)
    /\ currentPlayer = WHITE
    /\ ~FiveOnBoard(board)

\* C23: between the turns of a game, moves is the number of stones on the
\* board, every cell holds EMPTY, BLACK or WHITE, there are as many Black
\* stones as White ones or one more, and moves is 225 exactly when no cell is
\* EMPTY.
C23_MovesCountsTheStones ==
    pc \in {"turn", "over"} =>
        /\ moves = Cardinality(Stones(board))
        /\ \A p \in Cells : board[p[1]][p[2]] \in {EMPTY, BLACK, WHITE}
        /\ Balanced(board)
        /\ moves = BOARD_SIZE * BOARD_SIZE <=> EmptyCells(board) = {}

====
